---- MODULE Spec2Model ----
(***************************************************************************)
(* A model of src/model.py: the greedy generation loop `generate`, and the *)
(* shape arithmetic of model construction (Attention, FeedForward,         *)
(* Transformer) and of the rotary table used by a forward pass.            *)
(*                                                                         *)
(* Buffer positions are 0-based as in the source; batch rows are numbered  *)
(* 1..bsz and a prompt row t is a sequence, so the source's t[p] is        *)
(* t[p + 1] here.                                                          *)
(***************************************************************************)
EXTENDS Integers, Sequences, FiniteSets, TLC

VARIABLES
  pc,               \* control position of the modelled call
  model_args,       \* ModelArgs: [max_seq_len, vocab_size]
  tokenizer,        \* Tokenizer ids: [pad_id, eos_id]
  weights,          \* the loaded checkpoint, abstracted to one number
  prompt_toks,      \* argument of generate: a sequence of token sequences
  max_gen,          \* argument of generate
  max_gen_len, min_tok_len, max_tok_len, ttl_len,
  gen_toks,         \* the token buffer, row -> (position -> token)
  eos_reached,      \* row -> BOOLEAN
  input_text_mask,  \* row -> (position -> BOOLEAN)
  cur_pos,          \* the loop variable of generate
  out_tkns,         \* the value generate returns
  calls,            \* history: the prefix length of every model.forward call
  params,           \* construction: the ModelArgs handed to Transformer(...)
  model,            \* construction: the built Transformer's shapes, or None
  fwd               \* construction: outcome of the last forward pass

vars == <<pc, model_args, tokenizer, weights, prompt_toks, max_gen,
          max_gen_len, min_tok_len, max_tok_len, ttl_len, gen_toks,
          eos_reached, input_text_mask, cur_pos, out_tkns, calls,
          params, model, fwd>>

genVars == <<pc, model_args, tokenizer, weights, prompt_toks, max_gen,
             max_gen_len, min_tok_len, max_tok_len, ttl_len, gen_toks,
             eos_reached, input_text_mask, cur_pos, out_tkns, calls>>

buildVars == <<params, model, fwd>>

(* Values of the construction variables while no model is being built. *)
NoMultiplier == [given |-> FALSE, num |-> 1, den |-> 1]

NoParams ==
  [dim |-> 0, n_heads |-> 0, multiple_of |-> 0,
   ffn_dim_multiplier |-> NoMultiplier, max_seq_len |-> 0]

NoModel ==
  [head_dim |-> 0, proj_width |-> 0, hidden_dim |-> 0,
   freqs_rows |-> 0, freqs_cols |-> 0]

NoFwd == [seqlen |-> 0, result |-> "none", runs |-> 0]

(***************************************************************************)
(* Bounds of the model.                                                    *)
(***************************************************************************)
MaxPromptLen == 3   \* longest prompt of the first batch row
MaxShortLen == 1    \* longest prompt of the second batch row
MaxGen == 2         \* largest max_gen argument
MaxSeqLen == 4      \* largest model_args.max_seq_len
VocabSize == 4      \* model_args.vocab_size of the small models
MaxDim == 9         \* largest small ModelArgs.dim
MaxHeads == 3       \* largest ModelArgs.n_heads
MaxMultipleOf == 4  \* largest small ModelArgs.multiple_of
MaxFwdLen == 2      \* forward passes see up to 2 * max_seq_len + MaxFwdLen tokens
MaxFwdRuns == 2     \* forward passes counted per built model

Min(a, b) == IF a <= b THEN a ELSE b
Max(a, b) == IF a >= b THEN a ELSE b

MinOf(S) == CHOOSE x \in S : \A y \in S : x <= y
MaxOf(S) == CHOOSE x \in S : \A y \in S : x >= y


(***************************************************************************)
(* Transformer.forward followed by the argmax of the last position's       *)
(* logits.  The network is a deterministic function of the weights and,    *)
(* row by row, of that row's prefix alone (no layer mixes batch rows); it  *)
(* returns an index into the vocab_size logits.  The weights are           *)
(* abstracted to one number selecting one such function.                   *)
(***************************************************************************)
RECURSIVE TokenSum(_)
TokenSum(prefix) ==
  IF prefix = <<>> THEN 0
  ELSE TokenSum(SubSeq(prefix, 1, Len(prefix) - 1)) + prefix[Len(prefix)]

Argmax(w, prefix, vocab_size) == (w * Len(prefix) + TokenSum(prefix)) % vocab_size

(* freqs_cis[:seqlen] has min(seqlen, 2 * max_seq_len) rows; the assertion *)
(* of reshape_for_broadcast compares that with the sequence dimension.     *)
RotaryRows(seqlen, max_seq_len) == Min(seqlen, 2 * max_seq_len)

RotaryShapeOK(seqlen, max_seq_len) == RotaryRows(seqlen, max_seq_len) = seqlen

(***************************************************************************)
(* generate, lines 246-260: the set-up.                                    *)
(***************************************************************************)
Rows == 1..Len(prompt_toks)

MaxGenLen(mg, max_seq_len) == IF mg # 0 THEN mg ELSE max_seq_len - 1

TtlLenUnclamped(max_seq_len, mgl, mtl) == mgl + mtl

TtlLenOffByOne(max_seq_len, mgl, mtl) == Min(max_seq_len, mgl + mtl) - 1

TtlLen(max_seq_len, mgl, mtl) == Min(max_seq_len, mgl + mtl)

(* torch.full((bsz, ttl_len), pad_id), then each prompt copied to the      *)
(* front of its row.                                                       *)
InitialBuffer(prompts, n, pad_id) ==
  [i \in 1..Len(prompts) |->
     [p \in 0..(n - 1) |->
        IF p < Len(prompts[i]) THEN prompts[i][p + 1] ELSE pad_id]]

InputTextMask(buf, pad_id) ==
  [i \in DOMAIN buf |-> [p \in DOMAIN buf[i] |-> buf[i][p] # pad_id]]

(* Line 258 raises when a prompt does not fit its ttl_len-wide row, and    *)
(* line 256 when ttl_len is negative.                                      *)
SetupFits(prompts, n) == n >= 0 /\ \A i \in 1..Len(prompts) : Len(prompts[i]) <= n

GenerateEnter ==
  /\ pc = "call"
  /\ LET mgl == MaxGenLen(max_gen, model_args.max_seq_len)
         lo  == MinOf({Len(prompt_toks[i]) : i \in Rows})
         hi  == MaxOf({Len(prompt_toks[i]) : i \in Rows})
         n   == TtlLen(model_args.max_seq_len, mgl, hi)
         buf == InitialBuffer(prompt_toks, n, tokenizer.pad_id)
     IN /\ SetupFits(prompt_toks, n)
        /\ max_gen_len' = mgl
        /\ min_tok_len' = lo
        /\ max_tok_len' = hi
        /\ ttl_len' = n
        /\ gen_toks' = buf
        /\ eos_reached' = [i \in Rows |-> FALSE]
        /\ input_text_mask' = InputTextMask(buf, tokenizer.pad_id)
        /\ cur_pos' = lo
        /\ pc' = "loop"
  /\ UNCHANGED <<model_args, tokenizer, weights, prompt_toks, max_gen,
                 out_tkns, calls>>
  /\ UNCHANGED buildVars

GenerateRaises ==
  /\ pc = "call"
  /\ LET mgl == MaxGenLen(max_gen, model_args.max_seq_len)
         lo  == MinOf({Len(prompt_toks[i]) : i \in Rows})
         hi  == MaxOf({Len(prompt_toks[i]) : i \in Rows})
         n   == TtlLen(model_args.max_seq_len, mgl, hi)
     IN /\ ~SetupFits(prompt_toks, n)
        /\ max_gen_len' = mgl
        /\ min_tok_len' = lo
        /\ max_tok_len' = hi
        /\ ttl_len' = n
        /\ pc' = "raised"
  /\ UNCHANGED <<model_args, tokenizer, weights, prompt_toks, max_gen,
                 gen_toks, eos_reached, input_text_mask, cur_pos, out_tkns,
                 calls>>
  /\ UNCHANGED buildVars

(***************************************************************************)
(* generate, lines 262-269: one iteration of the loop.                     *)
(***************************************************************************)
Prefix(row, n) == [j \in 1..n |-> row[j - 1]]

Where(cond, a, b) == IF cond THEN a ELSE b

NxtTokFirstRowMask(i) ==
  Where(input_text_mask[1][cur_pos], gen_toks[1][cur_pos],
        Argmax(weights, Prefix(gen_toks[i], cur_pos), model_args.vocab_size))

NxtTok(i) ==
  Where(input_text_mask[i][cur_pos], gen_toks[i][cur_pos],
        Argmax(weights, Prefix(gen_toks[i], cur_pos), model_args.vocab_size))

EosStep(i, tok) ==
  eos_reached[i] \/ (~input_text_mask[i][cur_pos] /\ tok = tokenizer.eos_id)

Iterate ==
  /\ pc = "loop"
  /\ cur_pos < ttl_len
  /\ calls' = Append(calls, cur_pos)
  /\ IF ~RotaryShapeOK(cur_pos, model_args.max_seq_len) \/ cur_pos < 1
     THEN /\ pc' = "raised"
          /\ UNCHANGED <<gen_toks, eos_reached, cur_pos>>
     ELSE LET nxt == [i \in Rows |-> NxtTok(i)]
              eos == [i \in Rows |-> EosStep(i, nxt[i])]
          IN /\ gen_toks' = [i \in Rows |-> [gen_toks[i] EXCEPT ![cur_pos] = nxt[i]]]
             /\ eos_reached' = eos
             /\ IF \A i \in Rows : eos[i]
                THEN pc' = "post" /\ cur_pos' = cur_pos
                ELSE pc' = "loop" /\ cur_pos' = cur_pos + 1
  /\ UNCHANGED <<model_args, tokenizer, weights, prompt_toks, max_gen,
                 max_gen_len, min_tok_len, max_tok_len, ttl_len,
                 input_text_mask, out_tkns>>
  /\ UNCHANGED buildVars

(* range(min_tok_len, ttl_len) is exhausted. *)
LoopExhausted ==
  /\ pc = "loop"
  /\ cur_pos >= ttl_len
  /\ pc' = "post"
  /\ UNCHANGED <<model_args, tokenizer, weights, prompt_toks, max_gen,
                 max_gen_len, min_tok_len, max_tok_len, ttl_len, gen_toks,
                 eos_reached, input_text_mask, cur_pos, out_tkns, calls>>
  /\ UNCHANGED buildVars

(***************************************************************************)
(* generate, lines 271-280: the returned rows.                             *)
(***************************************************************************)
(* toks[a : b] of a list held as a function on 0..n-1, as a sequence. *)
Slice(row, n, a, b) ==
  LET lo == Min(Max(a, 0), n)
      hi == Min(Max(b, lo), n)
  IN [j \in 1..(hi - lo) |-> row[lo + j - 1]]

(* toks.index(x) for x in toks, 0-based. *)
IndexOf(toks, x) == MinOf({j \in 1..Len(toks) : toks[j] = x}) - 1

CutAtEosInclusive(toks, eos_id) ==
  IF \E j \in 1..Len(toks) : toks[j] = eos_id
  THEN SubSeq(toks, 1, IndexOf(toks, eos_id) + 1)
  ELSE toks

CutAtEos(toks, eos_id) ==
  IF \E j \in 1..Len(toks) : toks[j] = eos_id
  THEN SubSeq(toks, 1, IndexOf(toks, eos_id))
  ELSE toks

OutRow(i) ==
  LET prompt_toks_len == Len(prompt_toks[i])
  IN CutAtEos(Slice(gen_toks[i], ttl_len, prompt_toks_len,
                    prompt_toks_len + max_gen_len),
              tokenizer.eos_id)

PostProcess ==
  /\ pc = "post"
  /\ out_tkns' = [i \in Rows |-> OutRow(i)]
  /\ pc' = "done"
  /\ UNCHANGED <<model_args, tokenizer, weights, prompt_toks, max_gen,
                 max_gen_len, min_tok_len, max_tok_len, ttl_len, gen_toks,
                 eos_reached, input_text_mask, cur_pos, calls>>
  /\ UNCHANGED buildVars

(***************************************************************************)
(* The calls of generate that are explored.                                *)
(***************************************************************************)
PromptAlphabet == {0, 1, 2}

Tokenizers == {[pad_id |-> 0, eos_id |-> 2], [pad_id |-> -1, eos_id |-> 2]}

PromptRows(n) == UNION {[1..k -> PromptAlphabet] : k \in 1..n}

Batches ==
  {<<a>> : a \in PromptRows(MaxPromptLen)}
    \cup {<<a, b>> : a \in PromptRows(MaxPromptLen), b \in PromptRows(MaxShortLen)}

(* The end-to-end scenario of the specification's section 8. *)
ScenarioPrompts == <<(<<1, 2, 3>>), (<<1, 2>>)>>

IsScenario ==
  /\ prompt_toks = ScenarioPrompts
  /\ tokenizer = [pad_id |-> 0, eos_id |-> 2]
  /\ max_gen = 5
  /\ model_args.max_seq_len >= 8

IdleBuild == params = NoParams /\ model = NoModel /\ fwd = NoFwd

InitCall ==
  /\ pc = "call"
  /\ weights \in 0..(VocabSize - 1)
  /\ max_gen_len = 0 /\ min_tok_len = 0 /\ max_tok_len = 0 /\ ttl_len = 0
  /\ gen_toks = <<>> /\ eos_reached = <<>> /\ input_text_mask = <<>>
  /\ cur_pos = 0 /\ out_tkns = <<>> /\ calls = <<>>
  /\ IdleBuild

Init ==
  /\ InitCall
  /\ \/ /\ prompt_toks \in Batches
        /\ tokenizer \in Tokenizers
        /\ max_gen \in 0..MaxGen
        /\ model_args \in [max_seq_len : (MaxSeqLen - 2)..MaxSeqLen,
                           vocab_size : {VocabSize}]
     \/ /\ prompt_toks = ScenarioPrompts
        /\ tokenizer = [pad_id |-> 0, eos_id |-> 2]
        /\ max_gen = 5
        /\ model_args \in [max_seq_len : {8, 9}, vocab_size : {VocabSize}]

Next == GenerateEnter \/ GenerateRaises \/ Iterate \/ LoopExhausted \/ PostProcess

Spec == Init /\ [][Next]_vars

(***************************************************************************)
(* Model construction: Transformer.__init__ with the TransformerBlock,     *)
(* Attention and FeedForward constructors it calls, and the shapes a       *)
(* forward pass then meets.                                                *)
(***************************************************************************)
(* int(x) of a non-negative quotient a / b. *)
IntOfQuotient(a, b) == a \div b

FeedForwardHiddenRoundDown(dim, hidden_dim, multiple_of, ffn_dim_multiplier) ==
  LET h1 == IntOfQuotient(2 * hidden_dim, 3)
      h2 == IF ffn_dim_multiplier.given
            THEN IntOfQuotient(ffn_dim_multiplier.num * h1, ffn_dim_multiplier.den)
            ELSE h1
  IN multiple_of * (h2 \div multiple_of)

(* FeedForward.__init__: the width of w1, w2 and w3.  A multiplier is the  *)
(* exactly representable float num / den.                                  *)
FeedForwardHidden(dim, hidden_dim, multiple_of, ffn_dim_multiplier) ==
  LET h1 == IntOfQuotient(2 * hidden_dim, 3)
      h2 == IF ffn_dim_multiplier.given
            THEN IntOfQuotient(ffn_dim_multiplier.num * h1, ffn_dim_multiplier.den)
            ELSE h1
  IN multiple_of * ((h2 + multiple_of - 1) \div multiple_of)

(* Attention.__init__ and TransformerBlock.__init__ *)
HeadDim(dim, n_heads) == dim \div n_heads

(* precompute_freqs_cis(dim, end): end rows and as many columns as         *)
(* arange(0, dim, 2)[: dim // 2] has entries.                              *)
FreqsCols(head_dim) == Min((head_dim + 1) \div 2, head_dim \div 2)

(* No constructor tests its arguments: construction succeeds for every     *)
(* dim >= 1 and n_heads >= 1.                                              *)
Construct ==
  /\ pc = "build"
  /\ LET head_dim == HeadDim(params.dim, params.n_heads)
     IN model' =
          [head_dim   |-> head_dim,
           proj_width |-> params.n_heads * head_dim,
           hidden_dim |-> FeedForwardHidden(params.dim, 4 * params.dim,
                                            params.multiple_of,
                                            params.ffn_dim_multiplier),
           freqs_rows |-> 2 * params.max_seq_len,
           freqs_cols |-> FreqsCols(head_dim)]
  /\ pc' = "built"
  /\ UNCHANGED <<params, fwd>>
  /\ UNCHANGED <<model_args, tokenizer, weights, prompt_toks, max_gen,
                 max_gen_len, min_tok_len, max_tok_len, ttl_len, gen_toks,
                 eos_reached, input_text_mask, cur_pos, out_tkns, calls>>

(* Transformer.forward on a (bsz, seqlen) batch: view_as_complex needs an  *)
(* even, non-empty head dimension (line 99), and reshape_for_broadcast     *)
(* asserts the sliced table's shape (line 94).                             *)
ForwardResult(seqlen) ==
  IF model.head_dim = 0 \/ model.head_dim % 2 # 0 THEN "reshape_error"
  ELSE IF Min(seqlen, model.freqs_rows) # seqlen
          \/ model.freqs_cols # model.head_dim \div 2
       THEN "assertion_error"
       ELSE "ok"

Forward ==
  /\ pc = "built"
  /\ fwd.runs < MaxFwdRuns
  /\ \E seqlen \in 1..(2 * params.max_seq_len + MaxFwdLen) :
       fwd' = [seqlen |-> seqlen, result |-> ForwardResult(seqlen),
               runs |-> fwd.runs + 1]
  /\ UNCHANGED <<pc, params, model>>
  /\ UNCHANGED <<model_args, tokenizer, weights, prompt_toks, max_gen,
                 max_gen_len, min_tok_len, max_tok_len, ttl_len, gen_toks,
                 eos_reached, input_text_mask, cur_pos, out_tkns, calls>>

Dims == 1..MaxDim \cup {4096}

HeadCounts == 1..MaxHeads \cup {32}

MultipleOfs == 1..MaxMultipleOf \cup {256}

Multipliers == {NoMultiplier, [given |-> TRUE, num |-> 3, den |-> 2]}

InitBuild ==
  /\ pc = "build"
  /\ params \in [dim : Dims, n_heads : HeadCounts, multiple_of : MultipleOfs,
                 ffn_dim_multiplier : Multipliers, max_seq_len : {1, 2}]
  /\ model = NoModel
  /\ fwd = NoFwd
  /\ model_args = [max_seq_len |-> 0, vocab_size |-> 0]
  /\ tokenizer = [pad_id |-> 0, eos_id |-> 0]
  /\ weights = 0 /\ prompt_toks = <<>> /\ max_gen = 0
  /\ max_gen_len = 0 /\ min_tok_len = 0 /\ max_tok_len = 0 /\ ttl_len = 0
  /\ gen_toks = <<>> /\ eos_reached = <<>> /\ input_text_mask = <<>>
  /\ cur_pos = 0 /\ out_tkns = <<>> /\ calls = <<>>

NextBuild == Construct \/ Forward

SpecBuild == InitBuild /\ [][NextBuild]_vars

(* ceil(a / b) in exact arithmetic, for positive a and b. *)
CeilDiv(a, b) == (a + b - 1) \div b

(***************************************************************************)
(* C6: no model is ever built, and no forward pass ever runs, with a dim   *)
(* that is not a multiple of n_heads.                                      *)
(***************************************************************************)
C6_ConstructionRejects ==
  pc = "built" => params.dim % params.n_heads = 0

(***************************************************************************)
(* C7 as stated: with no multiplier the hidden width is                    *)
(* multiple_of * ceil((2 * 4 * dim / 3) / multiple_of) in exact arithmetic *)
(* and a positive multiple of multiple_of.                                 *)
(***************************************************************************)
C7_Original ==
  (pc = "built" /\ ~params.ffn_dim_multiplier.given) =>
    /\ model.hidden_dim =
         params.multiple_of * CeilDiv(2 * 4 * params.dim, 3 * params.multiple_of)
    /\ model.hidden_dim > 0
    /\ model.hidden_dim % params.multiple_of = 0

(***************************************************************************)
(* C7 amended: with no multiplier the hidden width is the least multiple   *)
(* of multiple_of that is at least floor(2 * 4 * dim / 3), the 2/3         *)
(* reduction being truncated to an integer before the rounding up; it is   *)
(* positive, and for dim = 4096, multiple_of = 256 it is                   *)
(* 256 * ceil((2 * 4096 * 4 / 3) / 256).                                   *)
(***************************************************************************)
C7_Amended ==
  (pc = "built" /\ ~params.ffn_dim_multiplier.given) =>
    LET reduced == (2 * 4 * params.dim) \div 3
    IN /\ model.hidden_dim % params.multiple_of = 0
       /\ model.hidden_dim >= reduced
       /\ model.hidden_dim - params.multiple_of < reduced
       /\ model.hidden_dim > 0
       /\ (params.dim = 4096 /\ params.multiple_of = 256) =>
            model.hidden_dim = 256 * CeilDiv(2 * 4096 * 4, 3 * 256)

C7_Witness ==
  /\ pc = "built"
  /\ ~params.ffn_dim_multiplier.given
  /\ params.dim = 4096 /\ params.multiple_of = 256
  /\ model.hidden_dim = 11008

(***************************************************************************)
(* Vocabulary of the properties of generate.                               *)
(***************************************************************************)
Started == pc \in {"loop", "post", "done"}

Ended == pc \in {"post", "done"}

PromptLen(i) == Len(prompt_toks[i])

(* The positions whose loop iteration has completed. *)
Visited == {calls[k] : k \in 1..Len(calls)}

LastVisited == calls[Len(calls)]

(* Generated offsets of row i that exist in the buffer. *)
GenOffsets(i) == 0..(ttl_len - PromptLen(i) - 1)

GenTok(i, k) == gen_toks[i][PromptLen(i) + k]

FirstEosAt(i, k) ==
  /\ k \in GenOffsets(i)
  /\ GenTok(i, k) = tokenizer.eos_id
  /\ \A j \in 0..(k - 1) : GenTok(i, j) # tokenizer.eos_id

(* Width of the slice [prompt_len, prompt_len + max_gen_len) inside the buffer. *)
SliceWidth(i) == Min(max_gen_len, ttl_len - PromptLen(i))

(***************************************************************************)
(* C1: after every iteration and at the end of the loop, every buffer      *)
(* position inside a row's own prompt still holds the prompt token.        *)
(***************************************************************************)
C1_PromptPreserved ==
  Started =>
    \A i \in Rows : \A p \in 0..(PromptLen(i) - 1) :
      gen_toks[i][p] = prompt_toks[i][p + 1]

(***************************************************************************)
(* C2 as stated: each returned row is its slice of the buffer cut before   *)
(* the first end-of-sequence id of the slice, holds no end-of-sequence id, *)
(* and has length k whenever the row's first generated end-of-sequence id  *)
(* is at generated offset k.                                               *)
(***************************************************************************)
C2_ReturnedSlice ==
  pc = "done" =>
    \A i \in Rows :
      LET out == out_tkns[i]
      IN /\ Len(out) <= SliceWidth(i)
         /\ \A j \in 1..Len(out) :
              out[j] = GenTok(i, j - 1) /\ out[j] # tokenizer.eos_id
         /\ Len(out) < SliceWidth(i) => GenTok(i, Len(out)) = tokenizer.eos_id

C2_Original ==
  /\ C2_ReturnedSlice
  /\ pc = "done" =>
       \A i \in Rows : \A k \in GenOffsets(i) :
         FirstEosAt(i, k) => Len(out_tkns[i]) = k

(***************************************************************************)
(* C2 amended: as C2, the length being k whenever the first generated      *)
(* end-of-sequence id is at an offset k below max_gen_len, and the full    *)
(* slice width otherwise.                                                  *)
(***************************************************************************)
C2_Amended ==
  /\ C2_ReturnedSlice
  /\ pc = "done" =>
       \A i \in Rows :
         /\ \A k \in GenOffsets(i) :
              (FirstEosAt(i, k) /\ k < max_gen_len) => Len(out_tkns[i]) = k
         /\ (\A k \in GenOffsets(i) : FirstEosAt(i, k) => k >= max_gen_len)
              => Len(out_tkns[i]) = SliceWidth(i)

C2_Witness ==
  /\ pc = "done"
  /\ \E i \in Rows : \E k \in GenOffsets(i) :
       FirstEosAt(i, k) /\ 0 < k /\ k < max_gen_len /\ Len(out_tkns[i]) = k

(***************************************************************************)
(* C3: every returned row is at most max_gen long, and at most             *)
(* ttl_len - prompt length long.                                           *)
(***************************************************************************)
C3_OutputWithinMaxGen ==
  pc = "done" =>
    \A i \in Rows :
      Len(out_tkns[i]) <= max_gen /\ Len(out_tkns[i]) <= ttl_len - PromptLen(i)

(***************************************************************************)
(* C4: every visited position at or beyond a row's own prompt length holds *)
(* the candidate the model produced for that row from that row's prefix.   *)
(***************************************************************************)
C4_OwnCandidate ==
  Started =>
    \A i \in Rows : \A p \in Visited :
      PromptLen(i) <= p =>
        gen_toks[i][p] =
          Argmax(weights, Prefix(gen_toks[i], p), model_args.vocab_size)

C4_Witness ==
  /\ Started
  /\ \E i \in Rows : \E j \in Rows : \E p \in Visited :
       /\ PromptLen(i) <= p /\ p < PromptLen(j)
       /\ gen_toks[i][p] # prompt_toks[j][p + 1]
       /\ gen_toks[i][p] # tokenizer.pad_id

(***************************************************************************)
(* C5 as stated: in the scenario the loop visits 2, 3, ... in steps of     *)
(* one and never a position greater than 6.                                *)
(***************************************************************************)
C5_Original ==
  IsScenario =>
    \A k \in 1..Len(calls) : calls[k] = k + 1 /\ calls[k] <= 6

(***************************************************************************)
(* C5 amended: in the scenario the loop runs positions 2..7: it visits 2,  *)
(* 3, ... in steps of one, never a position greater than 7, and ends       *)
(* before 7 only when every row is finished.                               *)
(***************************************************************************)
C5_Amended ==
  IsScenario =>
    /\ \A k \in 1..Len(calls) : calls[k] = k + 1 /\ calls[k] <= 7
    /\ Started => ttl_len = 8 /\ min_tok_len = 2
    /\ (Ended /\ \E i \in Rows : ~eos_reached[i]) => LastVisited = 7

C5_Witness == IsScenario /\ pc = "done" /\ calls = <<2, 3, 4, 5, 6, 7>>

(***************************************************************************)
(* C8: after each iteration a row's flag is true exactly when a visited    *)
(* position at or beyond the row's prompt length holds the                 *)
(* end-of-sequence id.                                                     *)
(***************************************************************************)
C8_EosFlagExact ==
  Started =>
    \A i \in Rows :
      eos_reached[i] <=>
        \E p \in Visited : PromptLen(i) <= p /\ gen_toks[i][p] = tokenizer.eos_id

(***************************************************************************)
(* C9: the loop has ended either right after the first iteration that left *)
(* every row finished, the columns after it still holding the pad id, or   *)
(* after position ttl_len - 1.                                             *)
(***************************************************************************)
C9_StopsWhenAllFinished ==
  Ended =>
    IF \A i \in Rows : eos_reached[i]
    THEN /\ calls # <<>>
         /\ \A i \in Rows : \A p \in (LastVisited + 1)..(ttl_len - 1) :
              gen_toks[i][p] = tokenizer.pad_id
    ELSE IF calls = <<>> THEN min_tok_len >= ttl_len
         ELSE LastVisited = ttl_len - 1

(***************************************************************************)
(* C10: every model call passes a prefix of length 1..max_seq_len - 1,     *)
(* successive calls pass strictly longer prefixes, and the rotary shape    *)
(* assertion holds for each.                                               *)
(***************************************************************************)
C10_PrefixLengths ==
  /\ \A k \in 1..Len(calls) :
       /\ 1 <= calls[k] /\ calls[k] <= model_args.max_seq_len - 1
       /\ k > 1 => calls[k] > calls[k - 1]
       /\ calls[k] <= 2 * model_args.max_seq_len
       /\ RotaryShapeOK(calls[k], model_args.max_seq_len)
  /\ pc = "raised" => calls = <<>>

C10_Witness ==
  /\ Len(calls) >= 2
  /\ LastVisited = model_args.max_seq_len - 1
  /\ max_gen_len + max_tok_len > model_args.max_seq_len

====
